---- MODULE Spec2Model ----
(***************************************************************************)
(* A model of the two-tape interpreter of src/src/main.rs: Tape<T> (a      *)
(* cursor into a growable Vec<T>) and Program (an instruction tape `ops`   *)
(* and a byte tape `memory`), with run(), step(), operate() and the eight  *)
(* instruction bodies.  Every loop iteration of run(), jpf() and jpb() is  *)
(* one action, so the states between two iterations are states of the      *)
(* model.                                                                  *)
(*                                                                         *)
(* usize values.  A cursor c >= 0 stands for itself.  A cursor c < 0       *)
(* stands for the usize 2^64 + c: it is what `cursor -= 1` leaves when it  *)
(* wraps below 0 in a build without overflow checks.  With this encoding   *)
(* wrapping_sub is c - 1 and wrapping_add is c + 1 (and -1 + 1 = 0 is the  *)
(* wrap of usize::MAX to 0); unsigned comparison is UsizeGe.               *)
(***************************************************************************)
EXTENDS Integers, Sequences, FiniteSets, TLC

\* ------------------------------------------------------------------ bounds

\* Longest instruction sequence handed to Program::new by the general Spec.
MaxLen == 3
\* How often the model lets the instruction tape double (the code: no limit).
MaxOpsDoublings == 2
\* How often the model lets the memory tape double (the code: no limit).
MaxMemDoublings == 1
\* Characters of output the model records (the code: no limit).
MaxOut == 2
\* The count of executed decrements is recorded up to this number.
MaxDecs == 256
\* Longest well-formed program of SpecNested.
MaxNestLen == 6
\* Largest starting value of cell 0 in SpecNested.
MaxNestStart == 1
\* SpecDrain starts cell 0 at 0..MaxDrainStart and at 255, the top of u8.
MaxDrainStart == 64
\* SpecRight runs 0..MaxRightSmall move-rights, and counts around the
\* lengths at which the memory tape doubles.
MaxRightSmall == 3
\* Longest byte stream main() reads in SpecParse.
MaxSrcLen == 3
\* Longest straight-line program of SpecLine.
MaxLineLen == 4
\* Longest program of SpecScan.
MaxScanLen == 4

\* --------------------------------------------------------- program constants

\* memory.resize(512, 0)
MemInit == 512
\* u8: 2^8 values
U8Mod == 256

\* -------------------------------------------------------------- Operation

Operation ==
    {"MoveRight", "MoveLeft", "Increment", "Decrement", "Output", "Input",
     "JumpForward", "JumpBack", "NoOp"}

\* impl Default for Operation
OperationDefault == "NoOp"

\* u8::default()
U8Default == 0

\* ------------------------------------------------------------------- Tape

\* a >= b on usize values in the encoding above
UsizeGe(a, b) ==
    IF a < 0 THEN (b >= 0 \/ a >= b) ELSE (b >= 0 /\ a >= b)

\* Tape::new
Tape_new(data) == [cursor |-> 0, data |-> data]

\* Vec::resize_with(new_len, T::default)
resize_with(data, new_len, dflt) ==
    IF new_len >= Len(data)
    THEN data \o [i \in 1..(new_len - Len(data)) |-> dflt]
    ELSE SubSeq(data, 1, new_len)

\* A mutant of mv_right: the growth test is > instead of >=.
mv_right_late(t, dflt) ==
    LET c == t.cursor + 1 IN
    [cursor |-> c,
     data |-> IF c >= 0 /\ c > Len(t.data)
              THEN resize_with(t.data, Len(t.data) * 2, dflt)
              ELSE t.data]

\* A mutant of mv_right: the new slots are copies of the last element.
mv_right_copy(t, dflt) ==
    LET c == t.cursor + 1
        fill == IF t.data = << >> THEN dflt ELSE t.data[Len(t.data)]
    IN  [cursor |-> c,
         data |-> IF UsizeGe(c, Len(t.data))
                  THEN resize_with(t.data, Len(t.data) * 2, fill)
                  ELSE t.data]

\* Tape::mv_right.  `cursor += 1` wraps usize::MAX (-1) to 0 in a build
\* without overflow checks; a build with them never holds that cursor.
mv_right(t, dflt) ==
    LET c == t.cursor + 1 IN
    [cursor |-> c,
     data |-> IF UsizeGe(c, Len(t.data))
              THEN resize_with(t.data, Len(t.data) * 2, dflt)
              ELSE t.data]

\* `cursor -= 1` at cursor 0: "attempt to subtract with overflow", a panic
\* in a build with overflow checks (cargo's dev profile).
mv_left_panics(t, checks) == checks /\ t.cursor = 0

\* Tape::mv_left, where it does not panic: at cursor 0 the result is
\* usize::MAX (-1).
mv_left(t) == [t EXCEPT !.cursor = t.cursor - 1]

\* The index check of data[cursor]: outside it, cell and cell_mut panic.
InBounds(t) == t.cursor >= 0 /\ t.cursor < Len(t.data)

\* Tape::cell (0-based cursor, 1-based sequence)
cell(t) == t.data[t.cursor + 1]

\* A mutant of cell_set: the cell after the cursor's is written.
cell_set_next(t, v) == [t EXCEPT !.data[t.cursor + 2] = v]

\* *Tape::cell_mut() = v
cell_set(t, v) == [t EXCEPT !.data[t.cursor + 1] = v]

\* ---------------------------------------------------------------- Program

\* A mutant of Program_new: the instructions get an end sentinel of their
\* own.
Program_new_with_sentinel(program) ==
    [ops |-> Tape_new(Append(program, "NoOp")),
     memory |-> Tape_new(resize_with(<< >>, MemInit, 0))]

\* Program::new
Program_new(program) ==
    [ops |-> Tape_new(program),
     memory |-> Tape_new(resize_with(<< >>, MemInit, 0))]

\* A mutant of wrapping_add: saturates at 255.
wrapping_add_saturating(v, n) == IF v + n >= U8Mod THEN U8Mod - 1 ELSE v + n

\* u8::wrapping_add
wrapping_add(v, n) == (v + n) % U8Mod

\* u8::wrapping_sub
wrapping_sub(v, n) == (v - n) % U8Mod

\* A mutant of jpf_taken: the jump is taken whatever the cell holds.
jpf_taken_always(v) == TRUE

\* jpf: `if *self.memory.cell() == 0`
jpf_taken(v) == v = 0

\* A mutant of jpb_taken: the jump back is never taken.
jpb_taken_never(v) == FALSE

\* jpb: `if *self.memory.cell() != 0`
jpb_taken(v) == v # 0

\* A mutant of jpf_count: nested jump-forwards are not counted.
jpf_count_flat(c, op) == IF op = "JumpBack" THEN c - 1 ELSE c

\* A mutant of jpf_count: the scan gives up on a no-op, the end sentinel.
jpf_count_to_sentinel(c, op) ==
    IF op = "JumpForward" THEN c + 1
    ELSE IF op = "JumpBack" THEN c - 1
    ELSE IF op = "NoOp" THEN 0
    ELSE c

\* The counter update of one iteration of jpf's scan.
jpf_count(c, op) ==
    IF op = "JumpForward" THEN c + 1
    ELSE IF op = "JumpBack" THEN c - 1
    ELSE c

\* A mutant of jpb_count: nested jump-backs are not counted.
jpb_count_flat(c, op) == IF op = "JumpForward" THEN c - 1 ELSE c

\* The counter update of one iteration of jpb's scan.
jpb_count(c, op) ==
    IF op = "JumpBack" THEN c + 1
    ELSE IF op = "JumpForward" THEN c - 1
    ELSE c

\* ------------------------------------------------------------------ parse

\* A byte of the stream whose read failed (`bytes()` yields an Err).
IoErr == 0 - 1

\* The bytes SpecParse draws its streams from: the 8 symbols
\* > < + - . , [ ] and, of the other 248, line feed, space, `a`, 0xC3.
SourceBytes == {62, 60, 43, 45, 46, 44, 91, 93, 10, 32, 97, 195}

\* impl From<char> for Operation; a char is represented by its code
from_char(c) ==
    CASE c = 62 -> "MoveRight"
      [] c = 60 -> "MoveLeft"
      [] c = 43 -> "Increment"
      [] c = 45 -> "Decrement"
      [] c = 46 -> "Output"
      [] c = 44 -> "Input"
      [] c = 91 -> "JumpForward"
      [] c = 93 -> "JumpBack"
      [] OTHER -> "NoOp"

\* impl From<u8> for Operation: `Self::from(char::from(n))`; char::from
\* takes the byte n to the character U+0000..U+00FF with the code n
from_u8(n) == from_char(n)

\* `.filter_map(|b| b.ok())`
is_ok(b) == b # IoErr

\* `.filter(|op| op != &Operation::NoOp)`
is_not_noop(op) == op # "NoOp"

\* A mutant of parse: the no-ops are not filtered out.
parse_keep_noop(stream) ==
    LET read == SelectSeq(stream, is_ok) IN
    [i \in 1..Len(read) |-> from_u8(read[i])]

\* parse(stream), collected into the Vec that Program::new takes
parse(stream) ==
    LET read == SelectSeq(stream, is_ok)
        mapped == [i \in 1..Len(read) |-> from_u8(read[i])]
    IN  SelectSeq(mapped, is_not_noop)

\* ------------------------------------------------------------------ input

\* Lines the standard input may deliver to `,` (<< >>: end of input).
InputLines ==
    { <<"0", "\n">>, <<" ", "2", "5", "5", " ", "\n">>, <<"+", "7", "\n">>,
      <<"0", "0", "7", "\n">>, <<"2", "5", "6", "\n">>, <<"-", "1", "\n">>,
      <<"7", "a", "\n">>, <<"\n">>, << >> }

Whitespace == {" ", "\n", "\t", "\r"}

Digits == {"0", "1", "2", "3", "4", "5", "6", "7", "8", "9"}

DigitVal(c) ==
    CASE c = "0" -> 0 [] c = "1" -> 1 [] c = "2" -> 2 [] c = "3" -> 3
      [] c = "4" -> 4 [] c = "5" -> 5 [] c = "6" -> 6 [] c = "7" -> 7
      [] c = "8" -> 8 [] c = "9" -> 9

RECURSIVE trim_start(_)
trim_start(s) ==
    IF s # << >> /\ Head(s) \in Whitespace THEN trim_start(Tail(s)) ELSE s

RECURSIVE trim_end(_)
trim_end(s) ==
    IF s # << >> /\ s[Len(s)] \in Whitespace
    THEN trim_end(SubSeq(s, 1, Len(s) - 1))
    ELSE s

\* str::trim
trim(s) == trim_end(trim_start(s))

\* The result of a failed parse.
ParseErr == -1

RECURSIVE parse_digits(_, _)
parse_digits(s, acc) ==
    IF s = << >> THEN acc
    ELSE IF Head(s) \notin Digits THEN ParseErr
    ELSE LET v == acc * 10 + DigitVal(Head(s)) IN
         IF v >= U8Mod THEN ParseErr ELSE parse_digits(Tail(s), v)

\* str::parse::<u8>: an optional "+", then one or more decimal digits, the
\* value at most 255; anything else is an Err.
parse_u8(s) ==
    LET d == IF s # << >> /\ Head(s) = "+" THEN Tail(s) ELSE s IN
    IF d = << >> THEN ParseErr ELSE parse_digits(d, 0)

\* ------------------------------------------------------------------ state

VARIABLES
    overflow_checks,  \* the build: TRUE when integer overflow panics
    driver,           \* the caller: "run" calls run(), "step" calls step() repeatedly
    program,          \* the instruction sequence given to Program::new
    ops,              \* Program.ops
    memory,           \* Program.memory
    pc,               \* where the execution stands
    count,            \* the local `count` of jpf / jpb (0 outside a scan)
    out,              \* what has been written to standard output
    last,             \* the instruction position and kind of the step under way
    decs,             \* executed decrements (up to MaxDecs)
    start,            \* the value of cell 0 when execution began
    buff,             \* the local `buff` of inp: the line the last `,` read
    source            \* the bytes main() reads (<< >>: the caller built the program)

vars ==
    <<overflow_checks, driver, program, ops, memory, pc, count, out, last, decs, start, buff, source>>

\* All sequences over S of length lo..hi
SeqsOf(S, lo, hi) == UNION {[1..n -> S] : n \in lo..hi}

\* Program::new(prog), then `*prog.memory.cell_mut() = v` as
\* tests::prog_inc_wrapping does (v = 0: the fresh program), before the
\* first call of run() or step().
Started(prog, v) ==
    /\ program = prog
    /\ ops = Program_new(prog).ops
    /\ memory = cell_set(Program_new(prog).memory, v)
    /\ pc = IF driver = "run" THEN "run" ELSE "idle"
    /\ count = 0
    /\ out = << >>
    /\ last = [at |-> 0, took |-> "new"]
    /\ decs = 0
    /\ start = v
    /\ buff = << >>
    /\ source = << >>

\* Every instruction sequence of at most MaxLen instructions, on fresh
\* memory, in either build, run or stepped.
Init ==
    /\ overflow_checks \in BOOLEAN
    /\ driver \in {"run", "step"}
    /\ \E prog \in SeqsOf(Operation, 0, MaxLen) : Started(prog, 0)

\* The caps that keep the model finite.
MaxOpsLen == Len(program) * 2 ^ MaxOpsDoublings
MaxMemLen == MemInit * 2 ^ MaxMemDoublings
GrowthAllowed(t, max_len) ==
    ~UsizeGe(t.cursor + 1, Len(t.data)) \/ Len(t.data) * 2 <= max_len

\* ---------------------------------------------------------------- actions

\* A mutant of run_test: the loop does not stop at a no-op.
run_test_no_halt(t) == IF ~InBounds(t) THEN "panic" ELSE "operate"

\* A mutant of run_test: the loop is left after its first round.
run_test_once(t) ==
    IF ~InBounds(t) THEN "panic"
    ELSE IF cell(t) = "NoOp" \/ t.cursor > 0 THEN "halted"
    ELSE "operate"

\* The test of run()'s loop: `*self.ops.cell() != Operation::NoOp`
run_test(t) ==
    IF ~InBounds(t) THEN "panic"
    ELSE IF cell(t) = "NoOp" THEN "halted"
    ELSE "operate"

\* run(): one evaluation of the loop test
run ==
    /\ pc = "run"
    /\ pc' = run_test(ops)
    /\ UNCHANGED <<overflow_checks, driver, program, ops, memory, count, out, last, decs, start, buff, source>>

\* A direct call of step(), as the tests make.
step_call ==
    /\ pc = "idle"
    /\ pc' = "operate"
    /\ UNCHANGED <<overflow_checks, driver, program, ops, memory, count, out, last, decs, start, buff, source>>

\* operate(): `match *self.ops.cell()` on an empty tape
operate_index_panic ==
    /\ pc = "operate"
    /\ ~InBounds(ops)
    /\ pc' = "panic"
    /\ UNCHANGED <<overflow_checks, driver, program, ops, memory, count, out, last, decs, start, buff, source>>

Dispatch(op) == pc = "operate" /\ InBounds(ops) /\ cell(ops) = op

Took(kind) == last' = [at |-> ops.cursor, took |-> kind]

\* Program::inc
inc ==
    /\ Dispatch("Increment")
    /\ IF InBounds(memory)
       THEN memory' = cell_set(memory, wrapping_add(cell(memory), 1)) /\ pc' = "advance"
       ELSE memory' = memory /\ pc' = "panic"
    /\ Took("none")
    /\ UNCHANGED <<overflow_checks, driver, program, ops, count, out, decs, start, buff, source>>

\* Program::dec
dec ==
    /\ Dispatch("Decrement")
    /\ IF InBounds(memory)
       THEN /\ memory' = cell_set(memory, wrapping_sub(cell(memory), 1))
            /\ pc' = "advance"
            /\ decs' = IF decs < MaxDecs THEN decs + 1 ELSE decs
       ELSE memory' = memory /\ pc' = "panic" /\ decs' = decs
    /\ Took("none")
    /\ UNCHANGED <<overflow_checks, driver, program, ops, count, out, start, buff, source>>

\* Program::mvl
mvl ==
    /\ Dispatch("MoveLeft")
    /\ IF mv_left_panics(memory, overflow_checks)
       THEN memory' = memory /\ pc' = "panic"
       ELSE memory' = mv_left(memory) /\ pc' = "advance"
    /\ Took("none")
    /\ UNCHANGED <<overflow_checks, driver, program, ops, count, out, decs, start, buff, source>>

\* Program::mvr
mvr ==
    /\ Dispatch("MoveRight")
    /\ GrowthAllowed(memory, MaxMemLen)
    /\ memory' = mv_right(memory, U8Default)
    /\ pc' = "advance"
    /\ Took("none")
    /\ UNCHANGED <<overflow_checks, driver, program, ops, count, out, decs, start, buff, source>>

\* A mutant of print_char: the value is written as a decimal number.
print_char_decimal(o, n) ==
    o \o (IF n < 10 THEN <<48 + n>>
          ELSE IF n < 100 THEN <<48 + (n \div 10), 48 + (n % 10)>>
          ELSE <<48 + (n \div 100), 48 + ((n \div 10) % 10), 48 + (n % 10)>>)

\* `print!("{}", char::from(n))`: the character whose code is n goes to the
\* standard output; a character is represented by its code.
print_char(o, n) == Append(o, n)

\* Program::prt
prt ==
    /\ Dispatch("Output")
    /\ Len(out) < MaxOut
    /\ IF InBounds(memory)
       THEN out' = print_char(out, cell(memory)) /\ pc' = "advance"
       ELSE out' = out /\ pc' = "panic"
    /\ Took("none")
    /\ UNCHANGED <<overflow_checks, driver, program, ops, memory, count, decs, start, buff, source>>

\* Program::inp
inp ==
    /\ Dispatch("Input")
    /\ \E line \in InputLines :
          LET v == parse_u8(trim(line)) IN
          /\ buff' = line
          /\ IF v = ParseErr \/ ~InBounds(memory)
             THEN memory' = memory /\ pc' = "panic"
             ELSE memory' = cell_set(memory, v) /\ pc' = "advance"
    /\ Took("none")
    /\ UNCHANGED <<overflow_checks, driver, program, ops, count, out, decs, start, source>>

\* Program::jpf, up to its loop
jpf ==
    /\ Dispatch("JumpForward")
    /\ IF ~InBounds(memory) THEN pc' = "panic" /\ count' = count /\ Took("none")
       ELSE IF jpf_taken(cell(memory)) THEN pc' = "jpf_scan" /\ count' = 1 /\ Took("forward")
       ELSE pc' = "advance" /\ count' = count /\ Took("none")
    /\ UNCHANGED <<overflow_checks, driver, program, ops, memory, out, decs, start, buff, source>>

\* Program::jpf, one iteration of `while count > 0`
jpf_scan ==
    /\ pc = "jpf_scan"
    /\ GrowthAllowed(ops, MaxOpsLen)
    /\ LET t == mv_right(ops, OperationDefault) IN
       /\ ops' = t
       /\ IF ~InBounds(t) THEN pc' = "panic" /\ count' = count
          ELSE LET c == jpf_count(count, cell(t)) IN
               count' = c /\ pc' = IF c > 0 THEN "jpf_scan" ELSE "advance"
    /\ UNCHANGED <<overflow_checks, driver, program, memory, out, last, decs, start, buff, source>>

\* Program::jpb, up to its loop
jpb ==
    /\ Dispatch("JumpBack")
    /\ IF ~InBounds(memory) THEN pc' = "panic" /\ count' = count /\ Took("none")
       ELSE IF jpb_taken(cell(memory)) THEN pc' = "jpb_scan" /\ count' = 1 /\ Took("back")
       ELSE pc' = "advance" /\ count' = count /\ Took("none")
    /\ UNCHANGED <<overflow_checks, driver, program, ops, memory, out, decs, start, buff, source>>

\* Program::jpb, one iteration of `while count > 0`
jpb_scan ==
    /\ pc = "jpb_scan"
    /\ IF mv_left_panics(ops, overflow_checks)
       THEN ops' = ops /\ pc' = "panic" /\ count' = count
       ELSE LET t == mv_left(ops) IN
            /\ ops' = t
            /\ IF ~InBounds(t) THEN pc' = "panic" /\ count' = count
               ELSE LET c == jpb_count(count, cell(t)) IN
                    count' = c /\ pc' = IF c > 0 THEN "jpb_scan" ELSE "advance"
    /\ UNCHANGED <<overflow_checks, driver, program, memory, out, last, decs, start, buff, source>>

\* operate(): the `_ => {}` arm
nop ==
    /\ Dispatch("NoOp")
    /\ pc' = "advance"
    /\ Took("none")
    /\ UNCHANGED <<overflow_checks, driver, program, ops, memory, count, out, decs, start, buff, source>>

\* step(): `self.ops.mv_right()` after operate() has returned
advance ==
    /\ pc = "advance"
    /\ GrowthAllowed(ops, MaxOpsLen)
    /\ ops' = mv_right(ops, OperationDefault)
    /\ pc' = IF driver = "run" THEN "run" ELSE "idle"
    /\ UNCHANGED <<overflow_checks, driver, program, memory, count, out, last, decs, start, buff, source>>

Next ==
    \/ run
    \/ step_call
    \/ operate_index_panic
    \/ inc
    \/ dec
    \/ mvl
    \/ mvr
    \/ prt
    \/ inp
    \/ jpf
    \/ jpf_scan
    \/ jpb
    \/ jpb_scan
    \/ nop
    \/ advance

Spec == Init /\ [][Next]_vars

\* The specifications below start from narrower sets of programs.  Each
\* takes for its next-state relation the actions of Next its programs can
\* enable (SpecParse with main, which builds the program, before them);
\* with Next itself the same states and transitions are reached
\* (SpecArith 82944 states, SpecNested 273604, SpecDrain 147336,
\* SpecRight 27568, SpecParse 57822, SpecLine 8486, SpecScan 7230, either
\* way).

\* ------------------------------------------------- u8 arithmetic: SpecArith

\* Programs of one or two increments and decrements, cell 0 starting at
\* every value of u8.
InitArith ==
    /\ overflow_checks \in BOOLEAN
    /\ driver \in {"run", "step"}
    /\ \E prog \in SeqsOf({"Increment", "Decrement"}, 1, 2), v \in 0..(U8Mod - 1) :
          Started(prog, v)

\* The actions such a program can take.
NextArith == run \/ step_call \/ inc \/ dec \/ nop \/ advance

SpecArith == InitArith /\ [][NextArith]_vars

\* ------------------------------------------- nested brackets: SpecNested

\* The nesting depth after each prefix of prog is >= 0, and 0 at the end.
RECURSIVE Balanced(_, _)
Balanced(prog, depth) ==
    IF depth < 0 THEN FALSE
    ELSE IF prog = << >> THEN depth = 0
    ELSE Balanced(Tail(prog),
                  CASE Head(prog) = "JumpForward" -> depth + 1
                    [] Head(prog) = "JumpBack" -> depth - 1
                    [] OTHER -> depth)

WellFormed(prog) == Balanced(prog, 0)

NestOps == {"Decrement", "JumpForward", "JumpBack"}

\* Every well-formed program over - [ ] of at most MaxNestLen
\* instructions, cell 0 starting at 0..MaxNestStart.
InitNested ==
    /\ overflow_checks \in BOOLEAN
    /\ driver \in {"run", "step"}
    /\ \E prog \in SeqsOf(NestOps, 1, MaxNestLen), v \in 0..MaxNestStart :
          WellFormed(prog) /\ Started(prog, v)

NextNested ==
    run \/ step_call \/ dec \/ jpf \/ jpf_scan \/ jpb \/ jpb_scan \/ nop \/ advance

SpecNested == InitNested /\ [][NextNested]_vars

\* ------------------------------------------------- drain loops: SpecDrain

DrainLoop == <<"JumpForward", "Decrement", "JumpBack">>
NestedDrainLoop ==
    <<"JumpForward", "JumpForward", "Decrement", "JumpBack", "JumpBack">>

\* [-]  [[-]]  +[-]  +[[-]]
DrainPrograms ==
    {DrainLoop, NestedDrainLoop, <<"Increment">> \o DrainLoop,
     <<"Increment">> \o NestedDrainLoop}

DrainStarts == ((0..MaxDrainStart) \cup {U8Mod - 1}) \cap (0..(U8Mod - 1))

InitDrain ==
    /\ overflow_checks \in BOOLEAN
    /\ driver = "run"
    /\ \E prog \in DrainPrograms, v \in DrainStarts : Started(prog, v)

NextDrain == run \/ inc \/ dec \/ jpf \/ jpf_scan \/ jpb \/ jpb_scan \/ advance

\* run() is a sequential loop: while a step is possible, one is taken.
SpecDrain == InitDrain /\ [][NextDrain]_vars /\ WF_vars(NextDrain)

\* ------------------------------------------------- move-rights: SpecRight

\* k move-rights
Rights(k) == [i \in 1..k |-> "MoveRight"]

\* 1000: tests::prog_mem_extends
RightCounts ==
    (0..MaxRightSmall)
        \cup {MemInit - 1, MemInit, MemInit + 1, 1000, 2 * MemInit - 1, 2 * MemInit}

InitRight ==
    /\ overflow_checks \in BOOLEAN
    /\ driver = "run"
    /\ \E k \in RightCounts : Started(Rights(k), 0)

NextRight == run \/ mvr \/ advance

SpecRight == InitRight /\ [][NextRight]_vars

\* ------------------------------------------------------- main(): SpecParse

\* main(), once the file named on the command line is open: the bytes are
\* parsed, Program::new takes the instructions, run() is called.
main ==
    /\ pc = "main"
    /\ program' = parse(source)
    /\ ops' = Program_new(parse(source)).ops
    /\ memory' = Program_new(parse(source)).memory
    /\ pc' = "run"
    /\ UNCHANGED <<overflow_checks, driver, count, out, last, decs, start, buff, source>>

\* Every stream of at most MaxSrcLen bytes or failed reads, before main()
\* has built the program, in either build.
InitParse ==
    /\ overflow_checks \in BOOLEAN
    /\ driver = "run"
    /\ source \in SeqsOf(SourceBytes \cup {IoErr}, 0, MaxSrcLen)
    /\ pc = "main"
    /\ program = << >>
    /\ ops = Tape_new(<< >>)
    /\ memory = Tape_new(<< >>)
    /\ count = 0
    /\ out = << >>
    /\ last = [at |-> 0, took |-> "new"]
    /\ decs = 0
    /\ start = 0
    /\ buff = << >>

NextParse ==
    \/ main
    \/ run
    \/ inc
    \/ dec
    \/ mvl
    \/ mvr
    \/ prt
    \/ inp
    \/ jpf
    \/ jpf_scan
    \/ jpb
    \/ jpb_scan
    \/ advance

SpecParse == InitParse /\ [][NextParse]_vars

\* ---------------------------------------------- straight lines: SpecLine

\* The instructions of the programs of tests::prog_inc and prog_dec, with
\* move-right and output: none jumps, none reads, none can panic on fresh
\* memory.
LineOps == {"Increment", "Decrement", "MoveRight", "Output"}

\* The number of output instructions of prog.
Outputs(prog) == Cardinality({i \in 1..Len(prog) : prog[i] = "Output"})

\* Every program of 1..MaxLineLen such instructions that writes no more
\* than the MaxOut characters the model records, on fresh memory, in
\* either build, under run().
InitLine ==
    /\ overflow_checks \in BOOLEAN
    /\ driver = "run"
    /\ \E prog \in SeqsOf(LineOps, 1, MaxLineLen) :
          Outputs(prog) <= MaxOut /\ Started(prog, 0)

NextLine == run \/ inc \/ dec \/ mvr \/ prt \/ advance

\* run() is a loop that keeps running: a step that can be taken is taken.
SpecLine == InitLine /\ [][NextLine]_vars /\ WF_vars(NextLine)

\* ------------------------------------------ unbalanced brackets: SpecScan

ScanOps == {"Increment", "JumpForward", "JumpBack"}

\* Every program of 1..MaxScanLen instructions over + [ ], its brackets
\* balanced or not, on fresh memory, in either build, under run().
InitScan ==
    /\ overflow_checks \in BOOLEAN
    /\ driver = "run"
    /\ \E prog \in SeqsOf(ScanOps, 1, MaxScanLen) : Started(prog, 0)

NextScan == run \/ inc \/ jpf \/ jpf_scan \/ jpb \/ jpb_scan \/ advance

\* run() and the loops of jpf and jpb keep running: a step that can be
\* taken is taken.
SpecScan == InitScan /\ [][NextScan]_vars /\ WF_vars(NextScan)

\* ----------------------------------------------------------------- claims

\* The encoding of usize::MAX, the one cursor at which `cursor += 1` wraps.
UsizeMax == 0 - 1

\* All cells of data from position lo (1-based) on hold v.
AllFrom(data, lo, v) == \A i \in lo..Len(data) : data[i] = v

\* C1: in every reachable state, on both tapes, 0 <= cursor < length, so
\* the element under the cursor can be read; for every instruction
\* sequence given to Program::new, of any length.
C1_CursorsInBounds == InBounds(ops) /\ InBounds(memory)

\* C1, where it does hold: a non-empty program in a build with overflow
\* checks keeps both cursors inside their tapes.
C1_InBoundsWhenCheckedAndNonEmpty ==
    (overflow_checks /\ program # << >>) => C1_CursorsInBounds

\* C4: at run()'s loop test, a current instruction other than no-op starts
\* a step, a no-op completes run(); run() completes from no other state,
\* and once it has completed nothing more is executed.
C4_RunHaltsAtNoOpOnly ==
    [][ /\ (pc = "run" /\ InBounds(ops) /\ cell(ops) # "NoOp") => pc' = "operate"
        /\ (pc = "run" /\ InBounds(ops) /\ cell(ops) = "NoOp") => pc' = "halted"
        /\ pc' = "halted" => (pc = "run" /\ InBounds(ops) /\ cell(ops) = "NoOp")
        /\ pc # "halted" ]_vars

\* C4's case: run() has executed instructions and completed on the no-op
\* after them.
C4_Witness ==
    pc = "halted" /\ ops.cursor = Len(program) /\ Len(program) >= 2 /\ cell(ops) = "NoOp"

\* C5: when the right-move that ends a step brings the instruction cursor
\* to n, the length of the program of n >= 1 instructions, the tape has
\* grown to 2n, its first n cells are the program, the cell under the
\* cursor is the default no-op, and run() completes there.
C5_EndSentinel ==
    [][ /\ (pc = "advance" /\ Len(program) >= 1 /\ ops'.cursor = Len(program)) =>
              /\ Len(ops.data) = Len(program)
              /\ Len(ops'.data) = 2 * Len(program)
              /\ SubSeq(ops'.data, 1, Len(program)) = program
              /\ InBounds(ops')
              /\ cell(ops') = OperationDefault
        /\ (pc = "run" /\ Len(program) >= 1 /\ ops.cursor = Len(program)) =>
              pc' = "halted" ]_vars

\* C5's case: a step has moved the cursor to n and run() completed there.
C5_Witness ==
    /\ pc = "halted" /\ Len(program) = MaxLen /\ ops.cursor = Len(program)
    /\ Len(ops.data) = 2 * Len(program)

\* What C6 says of one mv_right, from tape t to tape u, with default dflt.
MvRightClaim(t, u, dflt) ==
    /\ t.cursor # UsizeMax
    /\ u.cursor = t.cursor + 1
    /\ IF UsizeGe(u.cursor, Len(t.data))
       THEN /\ Len(u.data) = 2 * Len(t.data)
            /\ SubSeq(u.data, 1, Len(t.data)) = t.data
            /\ AllFrom(u.data, Len(t.data) + 1, dflt)
       ELSE u.data = t.data

\* C6: every mv_right, on either tape, increases the cursor by exactly 1;
\* when the new cursor is >= the length the length doubles, the new slots
\* hold the default and the old elements stay; otherwise the tape stays.
C6_MvRight ==
    [][ /\ (pc \in {"advance", "jpf_scan"}) => MvRightClaim(ops, ops', OperationDefault)
        /\ Dispatch("MoveRight") => MvRightClaim(memory, memory', U8Default) ]_vars

\* C6, where it does hold: every mv_right from a cursor other than
\* usize::MAX.
C6_MvRightUnlessWrapped ==
    [][ /\ (pc \in {"advance", "jpf_scan"} /\ ops.cursor # UsizeMax) =>
              MvRightClaim(ops, ops', OperationDefault)
        /\ (Dispatch("MoveRight") /\ memory.cursor # UsizeMax) =>
              MvRightClaim(memory, memory', U8Default) ]_vars

\* A call of mv_left with the cursor at 0: `<` at memory position 0, or the
\* backward scan at instruction position 0.
MvLeftAtZero ==
    \/ Dispatch("MoveLeft") /\ memory.cursor = 0
    \/ pc = "jpb_scan" /\ ops.cursor = 0

\* C10: mv_left() with the cursor at 0 is a fatal fault on either tape:
\* execution ends in the error state, where nothing more is executed.
C10_MvLeftAtZeroIsFatal ==
    [][ (MvLeftAtZero => pc' = "panic") /\ pc # "panic" ]_vars

\* C10, where it does hold: in a build with overflow checks, and for the
\* backward scan in either build.
C10_FatalWhenCheckedOrScanning ==
    [][ /\ (MvLeftAtZero /\ (overflow_checks \/ pc = "jpb_scan")) =>
              (pc' = "panic" /\ memory' = memory)
        /\ pc # "panic" ]_vars

\* C7: on every cell value v of 0..255 increment stores (v + 1) mod 256 and
\* decrement (v - 1) mod 256 (255 -> 0, 0 -> 255) without a fault, and each
\* undoes the other: the programs +- and -+ end with the cell at its
\* starting value.
C7_WrappingIncDec ==
    [][ /\ (Dispatch("Increment") /\ InBounds(memory)) =>
              /\ pc' = "advance"
              /\ cell(memory') = (cell(memory) + 1) % 256
              /\ (cell(memory) = 255 => cell(memory') = 0)
        /\ (Dispatch("Decrement") /\ InBounds(memory)) =>
              /\ pc' = "advance"
              /\ cell(memory') = (cell(memory) + 255) % 256
              /\ (cell(memory) = 0 => cell(memory') = 255)
        /\ pc' # "panic"
        /\ (pc' = "halted" /\ program \in {<<"Increment", "Decrement">>,
                                           <<"Decrement", "Increment">>}) =>
              cell(memory') = start
        /\ wrapping_add(wrapping_sub(cell(memory), 1), 1) = cell(memory)
        /\ wrapping_sub(wrapping_add(cell(memory), 1), 1) = cell(memory) ]_vars

\* C7's cases: a decrement of 0 has stored 255 and the increment after it 0
\* again; an increment of 255 has stored 0.
C7_Witness ==
    /\ program = <<"Decrement", "Increment">> /\ start = 0 /\ pc = "halted"
    /\ cell(memory) = 0 /\ decs = 1

\* ------------------------------------------------------- matching brackets

\* The pairs <<open, close>> (1-based positions) of brackets of prog that
\* belong together: each jump-back closes the latest jump-forward still open.
RECURSIVE PairUp(_, _, _, _)
PairUp(prog, i, open, pairs) ==
    IF i > Len(prog) THEN pairs
    ELSE IF prog[i] = "JumpForward" THEN PairUp(prog, i + 1, <<i>> \o open, pairs)
    ELSE IF prog[i] = "JumpBack" /\ open # << >>
         THEN PairUp(prog, i + 1, Tail(open), pairs \cup {<<Head(open), i>>})
    ELSE PairUp(prog, i + 1, open, pairs)

Pairs(prog) == PairUp(prog, 1, << >>, {})

\* The cursor (0-based) of the jump-back matching the jump-forward at cursor at.
CloseOf(prog, at) == (CHOOSE p \in Pairs(prog) : p[1] = at + 1)[2] - 1

\* The cursor (0-based) of the jump-forward matching the jump-back at cursor at.
OpenOf(prog, at) == (CHOOSE p \in Pairs(prog) : p[2] = at + 1)[1] - 1

\* Some pair of brackets lies strictly between cursors lo and hi.
PairInside(prog, lo, hi) ==
    \E p \in Pairs(prog) : lo + 1 < p[1] /\ p[2] < hi + 1

\* The step under way, or the last one completed, took a jump of this kind.
AfterStep == pc \in {"run", "idle", "halted", "operate"}

\* C2: in a well-formed program, a step on a jump-forward with the current
\* cell 0 scans only up to the matching jump-back, stops on it, and ends
\* with the instruction cursor right after it; no fault; the memory tape
\* is unchanged throughout.
C2_JumpForwardLands ==
    [][ /\ (WellFormed(program) /\ last'.took = "forward") =>
              LET close == CloseOf(program, last'.at) IN
              /\ program[last'.at + 1] = "JumpForward"
              /\ pc' # "panic"
              /\ pc' = "jpf_scan" => (last'.at <= ops'.cursor /\ ops'.cursor < close)
              /\ pc' = "advance" => ops'.cursor = close
              /\ (AfterStep)' => ops'.cursor = close + 1
        /\ (WellFormed(program) /\ pc = "jpf_scan") => ops'.cursor = ops.cursor + 1
        /\ (WellFormed(program)
              /\ (pc = "jpf_scan" \/ (pc = "advance" /\ last.took = "forward")
                     \/ (Dispatch("JumpForward") /\ InBounds(memory) /\ cell(memory) = 0))) =>
              memory' = memory
        /\ (WellFormed(program) /\ Dispatch("JumpForward") /\ InBounds(memory)
              /\ cell(memory) = 0) => last'.took = "forward" ]_vars

\* C2's case: a jump-forward taken on a 0 cell has skipped a nested pair
\* and the step has ended right after its own jump-back, not the inner one.
C2_Witness ==
    /\ last.took = "forward" /\ pc \in {"run", "idle"}
    /\ PairInside(program, last.at, CloseOf(program, last.at))
    /\ ops.cursor = CloseOf(program, last.at) + 1

\* C2's other case: a jump-forward inside a loop, taken on a 0 cell, has
\* ended its step inside that loop, before the outer jump-back.
C2_WitnessInner ==
    /\ last.took = "forward" /\ pc \in {"run", "idle"}
    /\ \E p \in Pairs(program) :
          p[1] < last.at + 1 /\ CloseOf(program, last.at) + 2 < p[2]
    /\ ops.cursor = CloseOf(program, last.at) + 1

\* C3: in a well-formed program, a step on a jump-back with the current
\* cell nonzero scans back only to the matching jump-forward, stops on it,
\* and ends with the instruction cursor one past it (for [] the jump-back
\* itself), so the next instruction executed is not that jump-forward.
C3_JumpBackLands ==
    [][ /\ (WellFormed(program) /\ last'.took = "back") =>
              LET open == OpenOf(program, last'.at) IN
              /\ program[last'.at + 1] = "JumpBack"
              /\ pc' # "panic"
              /\ pc' = "jpb_scan" => (open < ops'.cursor /\ ops'.cursor <= last'.at)
              /\ pc' = "advance" => ops'.cursor = open
              /\ (AfterStep)' => ops'.cursor = open + 1
              /\ ((AfterStep)' /\ last'.at = open + 1) => cell(ops') = "JumpBack"
        /\ (WellFormed(program) /\ pc = "jpb_scan") => ops'.cursor = ops.cursor - 1
        /\ (WellFormed(program) /\ Dispatch("JumpBack") /\ InBounds(memory)
              /\ cell(memory) # 0) => last'.took = "back" ]_vars

\* C3's case: a jump-back taken on a nonzero cell has scanned back over a
\* nested pair and the step has ended one past its own jump-forward.
C3_Witness ==
    /\ last.took = "back" /\ pc \in {"run", "idle"}
    /\ PairInside(program, OpenOf(program, last.at), last.at)
    /\ ops.cursor = OpenOf(program, last.at) + 1

\* C3's other case: the empty loop [] on a nonzero cell ends its step on
\* the jump-back itself.
C3_WitnessEmptyLoop ==
    /\ last.took = "back" /\ pc \in {"run", "idle"}
    /\ OpenOf(program, last.at) + 1 = last.at /\ ops.cursor = last.at

\* The value of cell 0 when the loop of a drain program is first reached.
DrainEntry == IF Head(program) = "Increment" THEN (start + 1) % 256 ELSE start

\* The cursor (0-based) of the first jump-forward of a drain program.
DrainOpen == IF Head(program) = "Increment" THEN 1 ELSE 0

IsNestedDrain == program \in {NestedDrainLoop, <<"Increment">> \o NestedDrainLoop}

\* run() has completed with the cell drained by exactly as many decrements
\* as the cell held on entry.
DrainDone == pc = "halted" /\ cell(memory) = 0 /\ decs = DrainEntry

\* On the way: the decrements so far account for the cell's value; with 0
\* on entry nothing inside the loop is executed; in [[-]] only the inner
\* jump-back ever jumps, so the outer loop is left the first time its
\* jump-back is reached.
DrainSafety ==
    /\ pc # "panic"
    /\ (last.took # "new" /\ (last.at >= DrainOpen \/ pc \in {"run", "halted"})) =>
          cell(memory) + decs = DrainEntry
    /\ DrainEntry = 0 => (decs = 0 /\ last.at <= DrainOpen)
    /\ (IsNestedDrain /\ last.took = "back") => last.at = Len(program) - 2

\* C8: from every starting value v, the drain loops [-] and [[-]] (and
\* +[-], +[[-]], whose loop is entered with v + 1 mod 256) eventually halt
\* with the cell 0 after exactly as many decrements as the cell held on
\* entry (none when it held 0, one for +[-] on fresh memory); in the
\* nested form the outer loop exits as soon as the inner one has drained
\* the cell.
C8_DrainLoopsHalt == <>[]DrainDone /\ []DrainSafety

\* C8's case: [[-]] started at 255 has halted after 255 decrements.
C8_Witness ==
    /\ program = NestedDrainLoop /\ start = 255 /\ pc = "halted"
    /\ decs = 255 /\ cell(memory) = 0

\* C8's other case: +[-] on fresh memory has halted after one decrement.
C8_WitnessFresh ==
    /\ program = <<"Increment">> \o DrainLoop /\ start = 0 /\ pc = "halted"
    /\ decs = 1 /\ cell(memory) = 0

\* len doubled the least number of times that makes it exceed k.
RECURSIVE DoubledToExceed(_, _)
DoubledToExceed(len, k) == IF len > k THEN len ELSE DoubledToExceed(2 * len, k)

\* What C9 says of a program of k move-rights that has just been built.
RightsFresh ==
    last.took = "new" =>
        /\ ops.cursor = 0 /\ ops.data = program
        /\ memory.cursor = 0 /\ Len(memory.data) = 512 /\ AllFrom(memory.data, 1, 0)

\* What C9 says of a completed run of k move-rights.
RightsHalted ==
    pc = "halted" =>
        /\ memory.cursor = Len(program)
        /\ AllFrom(memory.data, 1, 0)
        /\ Len(memory.data) = DoubledToExceed(512, Len(program))
        /\ (Len(program) = 1000 => Len(memory.data) = 1024)

\* C9: a fresh Program has both cursors at 0, the instruction tape as
\* given and 512 memory cells, all 0; for every k >= 0 the run of k
\* move-rights halts, never ending in a fault, with the memory cursor at k,
\* every cell 0 and the memory length 512 doubled until it exceeds k.
C9_RightsHalt == RightsFresh /\ RightsHalted /\ pc # "panic"

\* C9, where it does hold: for every k >= 1.
C9_RightsHaltWhenNonEmpty == (program # << >>) => C9_RightsHalt

\* C9's case where it holds: 1000 move-rights have halted at cursor 1000 in
\* 1024 cells.
C9_ReachedThousand ==
    pc = "halted" /\ Len(program) = 1000 /\ memory.cursor = 1000 /\ Len(memory.data) = 1024

\* ------------------------------------------------------------------- C11

\* The value a line of input denotes, read off the line itself: a decimal
\* integer of 0..255 between optional white space, or none.
NotAByte == 0 - 1
DenotedByte(line) ==
    CASE line = <<"0", "\n">> -> 0
      [] line = <<" ", "2", "5", "5", " ", "\n">> -> 255
      [] line = <<"+", "7", "\n">> -> 7
      [] line = <<"0", "0", "7", "\n">> -> 7
      [] OTHER -> NotAByte

\* What stays as it was across an input instruction, the memory apart.
InputFrame ==
    /\ ops' = ops
    /\ out' = out
    /\ program' = program
    /\ count' = count

\* The input instruction has stored the value v in the current cell and
\* nothing else has changed.
InputStored(v) ==
    /\ pc' = "advance"
    /\ memory'.cursor = memory.cursor
    /\ Len(memory'.data) = Len(memory.data)
    /\ \A i \in 1..Len(memory.data) :
          memory'.data[i] = IF i = memory.cursor + 1 THEN v ELSE memory.data[i]
    /\ InputFrame

\* The input instruction has ended the execution, the memory as it was.
InputFatal ==
    /\ pc' = "panic"
    /\ memory' = memory
    /\ InputFrame

\* C11: the input instruction, given a line whose trimmed text is a decimal
\* integer of 0..255, stores exactly that value in the current memory cell
\* and changes nothing else; given any other line the execution ends
\* fatally with the memory unmodified; nothing executes after a fatal end.
C11_InputStoresOrDies ==
    [][ /\ pc # "panic"
        /\ Dispatch("Input") =>
              IF DenotedByte(buff') # NotAByte
              THEN InputStored(DenotedByte(buff'))
              ELSE InputFatal ]_vars

\* C11, where it does hold: the same, for an input instruction executed
\* while the memory cursor is on a cell; with the memory cursor wrapped to
\* usize::MAX every line ends the execution.
C11_InputStoresOrDiesOnACell ==
    [][ /\ pc # "panic"
        /\ Dispatch("Input") =>
              IF DenotedByte(buff') # NotAByte /\ InBounds(memory)
              THEN InputStored(DenotedByte(buff'))
              ELSE InputFatal ]_vars

\* A line denoting 255 between blanks has been stored.
C11_WitnessStored ==
    /\ pc = "advance"
    /\ program # << >>
    /\ last.at < Len(program)
    /\ program[last.at + 1] = "Input"
    /\ buff = <<" ", "2", "5", "5", " ", "\n">>
    /\ InBounds(memory)
    /\ cell(memory) = 255

\* 256 has ended the execution.
C11_WitnessFatal ==
    /\ pc = "panic"
    /\ buff = <<"2", "5", "6", "\n">>
    /\ InBounds(memory)
    /\ cell(memory) = 0

\* ------------------------------------------------------------------- C12

\* The instruction of the step under way (no-op past the program's end).
LastOp == IF last.at < Len(program) THEN program[last.at + 1] ELSE "NoOp"

\* step() is about to advance the instruction cursor after operate() has
\* returned from an instruction of the given kind.
Returned(kind) == pc = "advance" /\ last.took # "new" /\ LastOp = kind

\* C12: the output stream, empty at the start, grows by exactly the value
\* of the current memory cell at each executed output instruction, in
\* execution order, and by nothing else; an output instruction changes no
\* memory cell and neither cursor, and its step then advances the
\* instruction cursor by one.
C12_OutputStream ==
    /\ out = << >>
    /\ [][ /\ Dispatch("Output") =>
                /\ memory' = memory
                /\ ops' = ops
                /\ IF InBounds(memory)
                   THEN out' = Append(out, cell(memory)) /\ pc' = "advance"
                   ELSE out' = out /\ pc' = "panic"
           /\ ~Dispatch("Output") => out' = out
           /\ Returned("Output") =>
                /\ ops.cursor = last.at
                /\ ops'.cursor = ops.cursor + 1
                /\ memory' = memory ]_vars

\* Two output instructions have written two different values, in order.
C12_Witness ==
    /\ program = <<"Output", "Increment", "Output">>
    /\ out = <<0, 1>>
    /\ pc \in {"halted", "idle"}
    /\ ops.cursor = 3

\* ------------------------------------------------------------------- C13

\* The 8 recognized symbols and the instruction each stands for.
Recognized == {62, 60, 43, 45, 46, 44, 91, 93}
VariantOf(b) ==
    CASE b = 62 -> "MoveRight" [] b = 60 -> "MoveLeft"
      [] b = 43 -> "Increment" [] b = 45 -> "Decrement"
      [] b = 46 -> "Output" [] b = 44 -> "Input"
      [] b = 91 -> "JumpForward" [] b = 93 -> "JumpBack"

\* The positions of the stream that hold a recognized symbol, and the k-th
\* of them in source order.
SymbolAt(stream) == {i \in 1..Len(stream) : stream[i] \in Recognized}
KthSymbol(stream, k) ==
    CHOOSE i \in SymbolAt(stream) :
        Cardinality({j \in SymbolAt(stream) : j <= i}) = k

\* prog is the subsequence of the recognized symbols of stream, each as its
\* instruction, in source order.
ParsedAs(stream, prog) ==
    /\ Len(prog) = Cardinality(SymbolAt(stream))
    /\ \A k \in 1..Len(prog) : prog[k] = VariantOf(stream[KthSymbol(stream, k)])
    /\ \A k \in 1..Len(prog) : prog[k] # "NoOp"

\* C13: for every byte stream, parse yields exactly the subsequence of the
\* bytes that are one of the 8 recognized symbols, each as its instruction
\* variant, in source order; every other byte is dropped: no no-op, and as
\* many instructions as the stream has recognized symbols.
C13_ParseKeepsSymbols ==
    pc # "main" =>
        /\ ParsedAs(source, program)
        /\ SubSeq(ops.data, 1, Len(program)) = program

\* A stream of two symbols around a letter has been parsed.
C13_Witness ==
    /\ source = <<93, 97, 43>>
    /\ program = <<"JumpBack", "Increment">>
    /\ pc = "run"
    /\ ops.cursor = 0

\* A stream without any symbol gives the empty program.
C13_WitnessEmpty ==
    /\ source = <<10, IoErr, 195>>
    /\ program = << >>
    /\ pc = "run"

\* ------------------------------------------------------------------- C14

\* The instruction under the instruction cursor is a jump that falls
\* through: a jump-forward on a nonzero cell, a jump-back on a zero cell.
FallsThrough(op) ==
    /\ InBounds(memory)
    /\ \/ op = "JumpForward" /\ cell(memory) # 0
       \/ op = "JumpBack" /\ cell(memory) = 0

\* C14: a jump-forward executed while the current memory cell is nonzero
\* and a jump-back executed while it is 0 fall through: operate() changes
\* neither the instruction cursor nor the memory, and the enclosing step()
\* advances the instruction cursor by exactly one.
C14_JumpsFallThrough ==
    [][ /\ \A op \in {"JumpForward", "JumpBack"} :
              Dispatch(op) /\ FallsThrough(op) =>
                  /\ pc' = "advance"
                  /\ ops' = ops
                  /\ memory' = memory
                  /\ out' = out
        /\ \A op \in {"JumpForward", "JumpBack"} :
              Returned(op) /\ FallsThrough(op) =>
                  /\ ops.cursor = last.at
                  /\ ops'.cursor = last.at + 1
                  /\ memory' = memory ]_vars

\* The step of a jump-forward on a nonzero cell is over, the instruction
\* cursor one further.
C14_Witness ==
    /\ pc \in {"run", "idle"}
    /\ last.took # "new"
    /\ LastOp = "JumpForward"
    /\ FallsThrough("JumpForward")
    /\ ops.cursor = last.at + 1

\* The same for a jump-back on a zero cell.
C14_WitnessBack ==
    /\ pc \in {"run", "idle"}
    /\ last.took # "new"
    /\ LastOp = "JumpBack"
    /\ FallsThrough("JumpBack")
    /\ ops.cursor = last.at + 1

\* ------------------------------------------------------------------- C15

\* The memory tape u is the memory tape t but for the cell under t's
\* cursor, which holds v.
OnlyCellChanged(t, u, v) ==
    /\ u.cursor = t.cursor
    /\ Len(u.data) = Len(t.data)
    /\ \A i \in 1..Len(t.data) :
          u.data[i] = IF i = t.cursor + 1 THEN v ELSE t.data[i]

\* The memory tape u is the memory tape t but for its cursor: the cells t
\* has hold in u what they hold in t.
OnlyCursorChanged(t, u) ==
    /\ Len(u.data) >= Len(t.data)
    /\ \A i \in 1..Len(t.data) : u.data[i] = t.data[i]

\* The one effect of the instruction op on the memory, from operate()'s
\* call to its return.  The cursor moves in usize arithmetic, usize::MAX
\* being the cursor before 0.
OneEffect(op) ==
    CASE op = "Increment" ->
            OnlyCellChanged(memory, memory', (cell(memory) + 1) % U8Mod)
      [] op = "Decrement" ->
            OnlyCellChanged(memory, memory', (cell(memory) + U8Mod - 1) % U8Mod)
      [] op = "MoveRight" ->
            /\ OnlyCursorChanged(memory, memory')
            /\ memory'.cursor = memory.cursor + 1
      [] op = "MoveLeft" ->
            /\ OnlyCursorChanged(memory, memory')
            /\ Len(memory'.data) = Len(memory.data)
            /\ memory'.cursor = memory.cursor - 1
      [] op = "NoOp" -> memory' = memory

\* C15: operate() performs exactly the one effect of the instruction under
\* the instruction cursor and leaves the instruction cursor untouched:
\* increment and decrement change only the cell under the memory cursor,
\* move-right and move-left change only the memory cursor, no-op changes
\* nothing; step() then advances the instruction cursor by exactly one.
C15_OneEffectThenAdvance ==
    [][ /\ \A op \in {"Increment", "Decrement", "MoveRight", "MoveLeft", "NoOp"} :
              Dispatch(op) /\ pc' = "advance" =>
                  /\ OneEffect(op)
                  /\ ops' = ops
                  /\ out' = out
        /\ \A op \in Operation :
              Dispatch(op) /\ pc' = "advance" => ops' = ops
        /\ pc = "advance" /\ last.took = "none" =>
              /\ ops.cursor = last.at
              /\ ops'.cursor = last.at + 1
              /\ memory' = memory
              /\ out' = out ]_vars

\* A decrement of 0 has left 255 in the cell and nothing else, and its
\* step is over.
C15_Witness ==
    /\ pc \in {"run", "idle"}
    /\ last.took = "none"
    /\ LastOp = "Decrement"
    /\ ops.cursor = last.at + 1
    /\ InBounds(memory)
    /\ cell(memory) = 255

\* A move-right has moved the memory cursor and its step is over.
C15_WitnessMove ==
    /\ pc \in {"run", "idle"}
    /\ last.took = "none"
    /\ LastOp = "MoveRight"
    /\ ops.cursor = last.at + 1
    /\ memory.cursor = 1
    /\ memory.data[1] = 1

\* ------------------------------------------------------------------- C16

\* The number of move-rights among the first i instructions of prog.
MovesBefore(prog, i) == Cardinality({j \in 1..i : prog[j] = "MoveRight"})

\* What the increments and decrements of prog add to the cell k in all.
RECURSIVE NetChange(_, _, _)
NetChange(prog, i, k) ==
    IF i = 0 THEN 0
    ELSE NetChange(prog, i - 1, k)
         + (IF MovesBefore(prog, i - 1) # k THEN 0
            ELSE IF prog[i] = "Increment" THEN 1
            ELSE IF prog[i] = "Decrement" THEN 0 - 1
            ELSE 0)

\* The cell k after the first i instructions of prog, from fresh memory.
CellAfter(prog, i, k) == NetChange(prog, i, k) % U8Mod

\* The positions of the output instructions of prog, and what the j-th
\* position of prog writes.
WrittenAt(prog, j) == CellAfter(prog, j, MovesBefore(prog, j))

\* run() has halted on the straight-line program: the instruction cursor
\* is at n, every cell and the output are what the n instructions, each
\* executed once in source order, make of fresh memory.
LineDone ==
    /\ pc = "halted"
    /\ ops.cursor = Len(program)
    /\ memory.cursor = MovesBefore(program, Len(program))
    /\ \A k \in 0..Len(program) :
          memory.data[k + 1] = CellAfter(program, Len(program), k)
    /\ Len(out) = Outputs(program)
    /\ \A j \in 1..Len(program) :
          program[j] = "Output" =>
              out[Cardinality({i \in 1..j : program[i] = "Output"})]
                  = WrittenAt(program, j)

\* The steps of run() go through the program in source order: the first
\* executes the instruction 0, each next one the instruction after the
\* one before, and run() halts at no smaller position than n.
LineOrder ==
    /\ \A op \in Operation :
          Dispatch(op) =>
              /\ ops.cursor < Len(program)
              /\ op = program[ops.cursor + 1]
              /\ ops.cursor = IF last.took = "new" THEN 0 ELSE last.at + 1
    /\ pc' = "halted" => ops.cursor = Len(program) /\ last.at = Len(program) - 1
    /\ pc' # "panic"

\* C16: for every program of n >= 1 instructions drawn from increment,
\* decrement, move-right and output, run() terminates after exactly n
\* steps with the instruction cursor at n, each instruction executed
\* exactly once in source order (`+`: 1 step, cell 1; `+-`: 2 steps,
\* cell 0).
C16_StraightLineHalts ==
    /\ <>[]LineDone
    /\ [][LineOrder]_vars
    /\ [](pc = "halted" /\ program = <<"Increment">> =>
              ops.cursor = 1 /\ memory.data[1] = 1)
    /\ [](pc = "halted" /\ program = <<"Increment", "Decrement">> =>
              ops.cursor = 2 /\ memory.data[1] = 0)

\* `+-` has halted after its two steps.
C16_Witness ==
    /\ program = <<"Increment", "Decrement">>
    /\ pc = "halted"
    /\ ops.cursor = 2
    /\ last.at = 1
    /\ cell(memory) = 0

\* A program of all four instructions has halted.
C16_WitnessFour ==
    /\ program = <<"Decrement", "Output", "MoveRight", "Increment">>
    /\ pc = "halted"
    /\ ops.cursor = 4
    /\ out = <<255>>
    /\ memory.cursor = 1
    /\ cell(memory) = 1

\* ------------------------------------------------------------------- C17

\* The jump-forward at cursor at (0-based) of prog has no matching
\* jump-back.
Unmatched(prog, at) ==
    /\ at < Len(prog)
    /\ prog[at + 1] = "JumpForward"
    /\ \A p \in Pairs(prog) : p[1] # at + 1

\* The forward scan of a jump-forward without a matching jump-back is
\* under way.
ScanningUnmatched == pc = "jpf_scan" /\ Unmatched(program, last.at)

\* The instruction tape has reached the length at which the model stops
\* it from doubling, the cursor on its last cell.
ScanAtCap ==
    /\ Len(ops.data) = MaxOpsLen
    /\ ops.cursor = MaxOpsLen - 1

\* One step of the program: a jump-forward without a matching jump-back,
\* on a zero cell, enters the scan; one iteration of that scan moves the
\* instruction cursor one to the right, keeps or doubles the tape, leaves
\* the scan going, and finds a no-op past the program's end.
ScanGoesOn ==
    /\ Dispatch("JumpForward") /\ Unmatched(program, ops.cursor)
           /\ InBounds(memory) /\ cell(memory) = 0
        => pc' = "jpf_scan" /\ ops' = ops
    /\ ScanningUnmatched =>
           /\ pc' = "jpf_scan"
           /\ count' >= 1
           /\ ops'.cursor = ops.cursor + 1
           /\ ops'.cursor < Len(ops'.data)
           /\ Len(ops'.data) = IF ops'.cursor = Len(ops.data)
                               THEN 2 * Len(ops.data)
                               ELSE Len(ops.data)
           /\ ops'.cursor >= Len(program) => cell(ops') = "NoOp"
           /\ memory' = memory
           /\ out' = out

\* C17: when a jump-forward without a matching jump-back is executed while
\* the current memory cell is 0, the forward scan never terminates: the
\* instruction cursor goes right for ever through no-op cells, the tape
\* doubles up to every length (the model's MaxOpsLen, whatever it is), and
\* run() reaches neither its halt nor an error.
C17_UnmatchedScanGoesOn ==
    /\ [][ScanGoesOn]_vars
    /\ [](ScanningUnmatched => count >= 1 /\ ops.cursor >= last.at)
    /\ [](ScanningUnmatched /\ ~ScanAtCap => ENABLED jpf_scan)
    /\ (ScanningUnmatched ~> (ScanningUnmatched /\ ScanAtCap))

\* The scan of the first jump-forward of `[[]` has gone past the inner pair
\* and through the no-ops to the last cell of the tape, doubled
\* MaxOpsDoublings times.
C17_Witness ==
    /\ program = <<"JumpForward", "JumpForward", "JumpBack">>
    /\ ScanningUnmatched
    /\ last.at = 0
    /\ ScanAtCap
    /\ Len(ops.data) > 2 * Len(program)

\* ------------------------------------------------------------------- C18

\* The instruction tape holds the program given to Program::new in its
\* first n cells and no-ops in all cells after them.
ProgramIntact ==
    /\ Len(ops.data) >= Len(program)
    /\ SubSeq(ops.data, 1, Len(program)) = program
    /\ AllFrom(ops.data, Len(program) + 1, "NoOp")

\* The instruction tape stays as it is or grows by no-ops at its end.
OnlyNoOpsAppended ==
    \/ ops'.data = ops.data
    \/ /\ Len(ops'.data) > Len(ops.data)
       /\ SubSeq(ops'.data, 1, Len(ops.data)) = ops.data
       /\ AllFrom(ops'.data, Len(ops.data) + 1, "NoOp")

\* C18: execution never rewrites the program: in every reachable state the
\* first n cells of the instruction tape are the n instructions given to
\* Program::new and every cell from n on is a no-op; only growth changes
\* the instruction tape, and only by appending no-ops.
C18_ProgramNeverRewritten ==
    /\ []ProgramIntact
    /\ [][OnlyNoOpsAppended /\ program' = program]_vars

\* The tape of a program ending in a jump-back has doubled twice, the
\* program still in its first cells.
C18_Witness ==
    /\ Len(program) = 2
    /\ program[2] = "JumpBack"
    /\ Len(ops.data) = 4 * Len(program)
    /\ ops.cursor >= 2 * Len(program)
    /\ ProgramIntact

\* ------------------------------------------------------------------- C19

\* The program is well-formed, of n >= 1 instructions, none a no-op.
WellFormedNoNoOp ==
    /\ Len(program) >= 1
    /\ WellFormed(program)
    /\ \A i \in 1..Len(program) : program[i] # "NoOp"

\* The instruction cursor is in 0..n, a jump scan is at one of 0..n-1, the
\* tape has n cells until the cursor reaches n and 2n cells from then on,
\* and run() has halted only with the cursor at n.
CursorWithinProgram ==
    /\ ops.cursor \in 0..Len(program)
    /\ pc \in {"jpf_scan", "jpb_scan"} => ops.cursor \in 0..(Len(program) - 1)
    /\ Len(ops.data) = IF ops.cursor = Len(program)
                       THEN 2 * Len(program)
                       ELSE Len(program)
    /\ pc = "halted" => ops.cursor = Len(program)

\* C19, as stated: for every well-formed program of n >= 1 instructions
\* without a no-op, in every reachable state the instruction cursor is in
\* 0..n, jump scans stay in 0..n-1, the instruction tape has n cells until
\* the cursor first reaches n and exactly 2n from then on, and run() halts
\* only with the cursor at n.
C19_CursorWithinProgram ==
    WellFormedNoNoOp => CursorWithinProgram

\* C19, for the states run() reaches: the same, the program being executed
\* by run() and not by calls of step() that go on past its end.
C19_CursorWithinProgramUnderRun ==
    WellFormedNoNoOp /\ driver = "run" => CursorWithinProgram

\* run() has halted on a nested program at n, the tape doubled once, after
\* a jump back.
C19_Witness ==
    /\ driver = "run"
    /\ WellFormedNoNoOp
    /\ PairInside(program, 0, Len(program) - 1)
    /\ pc = "halted"
    /\ ops.cursor = Len(program)
    /\ Len(ops.data) = 2 * Len(program)
    /\ decs > 0

\* A jump scan is under way inside a nested program under run().
C19_WitnessScan ==
    /\ driver = "run"
    /\ WellFormedNoNoOp
    /\ pc = "jpb_scan"
    /\ count = 2
    /\ Len(ops.data) = Len(program)

====
